---- MODULE Spec2Model ----
(***************************************************************************)
(* foresight-radar: the workspace / membership authorization model.        *)
(*                                                                         *)
(* The database tables and their row-level-security policies are taken     *)
(* from the initial schema migration (src/unnamed/part_004, SQL part) and  *)
(* the two later migrations under src/supabase/migrations; the client      *)
(* flows from WorkspaceContext (src/unnamed/part_004, TS part) and         *)
(* OnboardingWizard.tsx.                                                   *)
(*                                                                         *)
(* PostgreSQL evaluates policies as follows (all policies here are         *)
(* PERMISSIVE): for one command the applicable policies are OR-ed; a       *)
(* FOR ALL policy applies to SELECT, INSERT, UPDATE and DELETE; a policy   *)
(* with USING and no WITH CHECK uses its USING expression as the check of  *)
(* new rows; an UPDATE needs USING on the old row and the check on the new *)
(* row; UPDATE and DELETE with a WHERE clause also need the row to pass    *)
(* the SELECT policies.                                                    *)
(***************************************************************************)
EXTENDS Integers, FiniteSets, Sequences, TLC

\* ------------------------------------------------------------- bounds
MaxMembers == 2      \* rows of public.members
MaxInitMembers == 1  \* rows of public.members when a content behaviour starts

\* ------------------------------------------------------------- universes
NULL == "null"
Users == {"A", "B"}                 \* auth.users ids
Callers == Users \cup {NULL}        \* auth.uid(): NULL for the anon role
WsIds == {"w1", "w2"}               \* uuids gen_random_uuid() may hand out
RowIds == {"r1"}                    \* uuid of the content row inserted
\* what a caller can type as a workspace name: "", " ", "a", " a"
TypedNames == {<<>>, <<" ">>, <<"a">>, <<" ", "a">>}
\* what a caller of the database API passes as workspace_name / name
Names == {<<>>, <<"a">>}

\* CREATE TYPE public.app_role
app_role == {"owner", "admin", "member", "viewer"}

ContentTables == {"sources", "signals", "trends", "megatrends", "jobs"}

VARIABLES
  workspaces,       \* public.workspaces: set of [id, name]
  members,          \* public.members: set of [workspace_id, user_id, role]
  rows,             \* the content tables: set of [tbl, id, workspace_id]
  signal_trend,     \* public.signal_trend: set of [signal_id, trend_id]
  trend_megatrend,  \* public.trend_megatrend: set of [trend_id, megatrend_id]
  tx,               \* the open create_workspace_with_owner call, or NoTx
  last,             \* the last request and its outcome
  del,              \* TrendsPage.handleDelete: the delete in progress or done
  ui,               \* SignalCollector: the component's state
  fn,               \* the last call of a serverless handler and its response
  clock,            \* the database's now()
  saves,            \* handleSaveLinks: the saves under way, one per session
  wp,               \* WorkspaceProvider: the provider's state
  sp                \* SignalsPage: the page's state

vars == <<workspaces, members, rows, signal_trend, trend_megatrend, tx, last,
          del, ui, fn, clock, saves, wp, sp>>

\* the clock and the pages other than the signal collector
pages == <<clock, saves, wp, sp>>

\* what the database operations leave alone
ext == <<del, ui, fn, pages>>

NoTx == [uid |-> NULL, name |-> <<>>, id |-> NULL]

\* no trend delete under way
NoDel == [phase |-> "idle", uid |-> NULL, trend_id |-> NULL,
          removed |-> {}, cascaded |-> {}]

Req(op, uid, ws, tbl, name, ok, result) ==
  [op |-> op, uid |-> uid, ws |-> ws, tbl |-> tbl, name |-> name,
   ok |-> ok, err |-> IF ok THEN "none" ELSE "rejected", result |-> result]

\* String.prototype.trim on a typed name
RECURSIVE TrimLeft(_)
TrimLeft(s) ==
  IF s # <<>> /\ Head(s) = " " THEN TrimLeft(Tail(s)) ELSE s

RECURSIVE TrimRight(_)
TrimRight(s) ==
  IF s # <<>> /\ s[Len(s)] = " " THEN TrimRight(SubSeq(s, 1, Len(s) - 1)) ELSE s

Trim(s) == TrimRight(TrimLeft(s))

\* ------------------------------------------------ predicate functions

\* is_workspace_member with every caller treated as a member of a workspace
\* that has any member at all
is_workspace_member_any(mem, uid, workspace_uuid) ==
  \E m \in mem : m.workspace_id = workspace_uuid

\* public.is_workspace_member(workspace_uuid), for auth.uid() = uid
is_workspace_member(mem, uid, workspace_uuid) ==
  \E m \in mem : m.workspace_id = workspace_uuid /\ m.user_id = uid

\* public.get_workspace_role(workspace_uuid): NULL when there is no row
get_workspace_role(mem, uid, workspace_uuid) ==
  IF \E m \in mem : m.workspace_id = workspace_uuid /\ m.user_id = uid
  THEN (CHOOSE m \in mem :
          m.workspace_id = workspace_uuid /\ m.user_id = uid).role
  ELSE NULL

\* ------------------------------------------------ policies: workspaces

\* "Users can view workspaces they belong to"
workspaces_select_using(mem, uid, w) == is_workspace_member(mem, uid, w.id)

\* "Authenticated users can create workspaces" (TO authenticated)
workspaces_insert_check(uid) == uid # NULL

\* ------------------------------------------------ policies: members

\* "Users can view members of their workspaces"
members_select_using(mem, uid, m) ==
  is_workspace_member(mem, uid, m.workspace_id)

\* "Owners and admins can manage members" (FOR ALL)
members_all_using(mem, uid, m) ==
  get_workspace_role(mem, uid, m.workspace_id) \in {"owner", "admin"}

\* "Users can insert themselves as owner when creating workspace"
members_self_insert_check(uid, m) == m.user_id = uid

MembersInsertAllowed(mem, uid, m) ==
  members_all_using(mem, uid, m) \/ members_self_insert_check(uid, m)

MembersSelectAllowed(mem, uid, m) ==
  members_select_using(mem, uid, m) \/ members_all_using(mem, uid, m)

MembersUpdateAllowed(mem, uid, old, new) ==
  /\ MembersSelectAllowed(mem, uid, old)
  /\ members_all_using(mem, uid, old)
  /\ members_all_using(mem, uid, new)

MembersDeleteAllowed(mem, uid, old) ==
  MembersSelectAllowed(mem, uid, old) /\ members_all_using(mem, uid, old)

\* ------------------------------------------------ workspace creation

FreeWsIds ==
  WsIds \ ({w.id : w \in workspaces} \cup (IF tx = NoTx THEN {} ELSE {tx.id}))

\* create_workspace_with_owner, first INSERT
RpcInsertWorkspace(ws, id, name) == ws \cup {[id |-> id, name |-> name]}

\* create_workspace_with_owner, second INSERT: members.user_id is NOT NULL,
\* so the insert raises for the anon role
RpcOwnerInsertFails(uid) == uid = NULL

\* the second INSERT with another role
RpcInsertOwnerAsAdmin(mem, id, uid) ==
  mem \cup {[workspace_id |-> id, user_id |-> uid, role |-> "admin"]}

RpcInsertOwner(mem, id, uid) ==
  mem \cup {[workspace_id |-> id, user_id |-> uid, role |-> "owner"]}

\* The function runs inside the calling statement's transaction: both
\* inserts commit together, or the exception undoes the first.
create_workspace_with_owner(uid, name, id, op) ==
  IF RpcOwnerInsertFails(uid)
  THEN /\ UNCHANGED <<workspaces, members>>
       /\ last' = Req(op, uid, NULL, "workspaces", name, FALSE, {})
  ELSE /\ workspaces' = RpcInsertWorkspace(workspaces, id, name)
       /\ members' = RpcInsertOwner(members, id, uid)
       /\ last' = Req(op, uid, id, "workspaces", name, TRUE, {})

\* The same call seen step by step from other sessions.  Its first INSERT
\* belongs to the caller's open transaction, so the committed table, which
\* is all another session reads, does not hold the new row yet.
WorkspacesWhileOpenAutocommit(ws, t) == RpcInsertWorkspace(ws, t.id, t.name)

WorkspacesWhileOpen(ws, t) == ws

RpcBegin(uid, name) ==
  /\ tx = NoTx
  /\ Cardinality(members) < MaxMembers
  /\ \E id \in FreeWsIds :
       /\ tx' = [uid |-> uid, name |-> name, id |-> id]
       /\ workspaces' = WorkspacesWhileOpen(workspaces, tx')
       /\ last' = Req("rpc_open", uid, id, "workspaces", name, TRUE, {})
  /\ UNCHANGED <<members, rows, signal_trend, trend_megatrend, ext>>

\* the second INSERT, then the commit; or the exception, which discards what
\* the transaction has not committed
RpcFinish ==
  /\ tx # NoTx
  /\ IF RpcOwnerInsertFails(tx.uid)
     THEN /\ UNCHANGED <<workspaces, members>>
          /\ last' = Req("rpc", tx.uid, NULL, "workspaces", tx.name, FALSE, {})
     ELSE /\ workspaces' = RpcInsertWorkspace(workspaces, tx.id, tx.name)
          /\ members' = RpcInsertOwner(members, tx.id, tx.uid)
          /\ last' = Req("rpc", tx.uid, tx.id, "workspaces", tx.name, TRUE, {})
  /\ tx' = NoTx
  /\ UNCHANGED <<rows, signal_trend, trend_megatrend, ext>>

\* supabase.rpc('create_workspace_with_owner', ...) issued directly
RpcCreateWorkspace(uid, name) ==
  /\ Cardinality(members) < MaxMembers
  /\ \E id \in FreeWsIds : create_workspace_with_owner(uid, name, id, "rpc")
  /\ UNCHANGED <<rows, signal_trend, trend_megatrend, tx, ext>>

\* OnboardingWizard.handleCreateWorkspace -> WorkspaceContext.createWorkspace
HandleCreateWorkspace(user, typed) ==
  /\ Cardinality(members) < MaxMembers
  /\ IF Trim(typed) = <<>> \/ user = NULL
     THEN /\ UNCHANGED <<workspaces, members>>
          /\ last' = Req("ui_create", user, NULL, "workspaces", typed, FALSE, {})
     ELSE \E id \in FreeWsIds :
            create_workspace_with_owner(user, Trim(typed), id, "ui_create")
  /\ UNCHANGED <<rows, signal_trend, trend_megatrend, tx, ext>>

\* INSERT INTO public.workspaces (name) by a client, without RETURNING
InsertWorkspace(uid, name) ==
  /\ IF workspaces_insert_check(uid)
     THEN \E id \in FreeWsIds :
            /\ workspaces' = workspaces \cup {[id |-> id, name |-> name]}
            /\ last' = Req("insert_workspace", uid, id, "workspaces", name, TRUE, {})
     ELSE /\ UNCHANGED workspaces
          /\ last' = Req("insert_workspace", uid, NULL, "workspaces", name, FALSE, {})
  /\ UNCHANGED <<members, rows, signal_trend, trend_megatrend, tx, ext>>

\* ------------------------------------------------ members

\* INSERT INTO public.members (workspace_id, user_id, role)
InsertMember(uid, w, target, role) ==
  LET new == [workspace_id |-> w, user_id |-> target, role |-> role]
      ok == /\ MembersInsertAllowed(members, uid, new)
            /\ \E x \in workspaces : x.id = w                 \* foreign key
            /\ ~is_workspace_member(members, target, w)       \* UNIQUE
  IN /\ Cardinality(members) < MaxMembers
     /\ members' = IF ok THEN members \cup {new} ELSE members
     /\ last' = Req("insert_member", uid, w, "members", <<>>, ok, {new})
     /\ UNCHANGED <<workspaces, rows, signal_trend, trend_megatrend, tx, ext>>

\* UPDATE public.members SET role = ... WHERE workspace_id = w AND user_id = target
UpdateMember(uid, w, target, role) ==
  LET hit == {m \in members : /\ m.workspace_id = w
                               /\ m.user_id = target
                               /\ MembersUpdateAllowed(members, uid, m,
                                                       [m EXCEPT !.role = role])}
  IN /\ members' = (members \ hit) \cup {[m EXCEPT !.role = role] : m \in hit}
     /\ last' = Req("update_member", uid, w, "members", <<>>, hit # {}, {})
     /\ UNCHANGED <<workspaces, rows, signal_trend, trend_megatrend, tx, ext>>

\* DELETE FROM public.members WHERE workspace_id = w AND user_id = target
DeleteMember(uid, w, target) ==
  LET hit == {m \in members : /\ m.workspace_id = w
                               /\ m.user_id = target
                               /\ MembersDeleteAllowed(members, uid, m)}
  IN /\ members' = members \ hit
     /\ last' = Req("delete_member", uid, w, "members", <<>>, hit # {}, hit)
     /\ UNCHANGED <<workspaces, rows, signal_trend, trend_megatrend, tx, ext>>

\* ------------------------------------------------ policies: content

\* "Users can view sources in their workspaces"
sources_select_using(mem, uid, r) == is_workspace_member(mem, uid, r.workspace_id)
\* "Members can manage sources" (FOR ALL)
sources_all_using(mem, uid, r) ==
  get_workspace_role(mem, uid, r.workspace_id) \in {"owner", "admin", "member"}

\* "Users can view signals in their workspaces"
signals_select_using(mem, uid, r) == is_workspace_member(mem, uid, r.workspace_id)
\* "Members can manage signals" (FOR ALL)
signals_all_using(mem, uid, r) ==
  get_workspace_role(mem, uid, r.workspace_id) \in {"owner", "admin", "member"}

\* "Users can view trends in their workspaces"
trends_select_using(mem, uid, r) == is_workspace_member(mem, uid, r.workspace_id)
\* the FOR ALL policy of trends with the membership test in place of the role
\* test: it admits the viewer
trends_all_using_member(mem, uid, r) ==
  is_workspace_member(mem, uid, r.workspace_id)

\* "Members can manage trends" (FOR ALL)
trends_all_using(mem, uid, r) ==
  get_workspace_role(mem, uid, r.workspace_id) \in {"owner", "admin", "member"}

\* "Users can view megatrends in their workspaces"
megatrends_select_using(mem, uid, r) == is_workspace_member(mem, uid, r.workspace_id)
\* "Members can manage megatrends" (FOR ALL)
megatrends_all_using(mem, uid, r) ==
  get_workspace_role(mem, uid, r.workspace_id) \in {"owner", "admin", "member"}

\* "Users can view jobs in their workspaces"
jobs_select_using(mem, uid, r) == is_workspace_member(mem, uid, r.workspace_id)
\* "Members can manage jobs" (FOR ALL)
jobs_all_using(mem, uid, r) ==
  get_workspace_role(mem, uid, r.workspace_id) \in {"owner", "admin", "member"}

\* the FOR SELECT policy of r's table
SelectUsing(mem, uid, r) ==
  CASE r.tbl = "sources" -> sources_select_using(mem, uid, r)
    [] r.tbl = "signals" -> signals_select_using(mem, uid, r)
    [] r.tbl = "trends" -> trends_select_using(mem, uid, r)
    [] r.tbl = "megatrends" -> megatrends_select_using(mem, uid, r)
    [] r.tbl = "jobs" -> jobs_select_using(mem, uid, r)

\* the FOR ALL policy of r's table
AllUsing(mem, uid, r) ==
  CASE r.tbl = "sources" -> sources_all_using(mem, uid, r)
    [] r.tbl = "signals" -> signals_all_using(mem, uid, r)
    [] r.tbl = "trends" -> trends_all_using(mem, uid, r)
    [] r.tbl = "megatrends" -> megatrends_all_using(mem, uid, r)
    [] r.tbl = "jobs" -> jobs_all_using(mem, uid, r)

RowSelectAllowed(mem, uid, r) == SelectUsing(mem, uid, r) \/ AllUsing(mem, uid, r)

RowInsertAllowed(mem, uid, new) == AllUsing(mem, uid, new)

RowUpdateAllowed(mem, uid, old, new) ==
  /\ RowSelectAllowed(mem, uid, old)
  /\ AllUsing(mem, uid, old)
  /\ AllUsing(mem, uid, new)

RowDeleteAllowed(mem, uid, old) ==
  RowSelectAllowed(mem, uid, old) /\ AllUsing(mem, uid, old)

\* ------------------------------------------------ content rows

SignalTrendAfterDeleteOfSignals(st, gone) ==
  {l \in st : ~(\E r \in gone : r.tbl = "signals" /\ r.id = l.signal_id)}

\* ON DELETE CASCADE of signal_trend and trend_megatrend
SignalTrendAfterDelete(st, gone) ==
  {l \in st : /\ ~(\E r \in gone : r.tbl = "signals" /\ r.id = l.signal_id)
              /\ ~(\E r \in gone : r.tbl = "trends" /\ r.id = l.trend_id)}

TrendMegatrendAfterDelete(tm, gone) ==
  {l \in tm : /\ ~(\E r \in gone : r.tbl = "trends" /\ r.id = l.trend_id)
              /\ ~(\E r \in gone : r.tbl = "megatrends" /\ r.id = l.megatrend_id)}

\* supabase.from(t).insert({workspace_id: w, ...}); id is the fresh uuid the
\* column default gen_random_uuid() yields
InsertRow(uid, t, w, id) ==
  LET new == [tbl |-> t, id |-> id, workspace_id |-> w]
      ok == /\ RowInsertAllowed(members, uid, new)
            /\ \E x \in workspaces : x.id = w                  \* foreign key
  IN /\ id \notin {r.id : r \in rows}
     /\ rows' = IF ok THEN rows \cup {new} ELSE rows
     /\ last' = Req("insert", uid, w, t, <<>>, ok, {new})
     /\ UNCHANGED <<workspaces, members, signal_trend, trend_megatrend, tx, ext>>

\* supabase.from(r.tbl).update({..., workspace_id: w}).eq('id', r.id): the
\* Update types carry workspace_id; w = r.workspace_id is an update of the
\* other columns alone
UpdateRow(uid, r, w) ==
  LET new == [r EXCEPT !.workspace_id = w]
      ok == /\ RowUpdateAllowed(members, uid, r, new)
            /\ \E x \in workspaces : x.id = w                  \* foreign key
  IN /\ r \in rows
     /\ rows' = IF ok THEN (rows \ {r}) \cup {new} ELSE rows
     /\ last' = Req("update", uid, r.workspace_id, r.tbl, <<>>, ok, {new})
     /\ UNCHANGED <<workspaces, members, signal_trend, trend_megatrend, tx, ext>>

\* supabase.from(r.tbl).delete().eq('id', r.id)
DeleteRow(uid, r) ==
  LET ok == RowDeleteAllowed(members, uid, r)
      gone == IF ok THEN {r} ELSE {}
  IN /\ r \in rows
     /\ rows' = rows \ gone
     /\ signal_trend' = SignalTrendAfterDelete(signal_trend, gone)
     /\ trend_megatrend' = TrendMegatrendAfterDelete(trend_megatrend, gone)
     /\ last' = Req("delete", uid, r.workspace_id, r.tbl, <<>>, ok, {r})
     /\ UNCHANGED <<workspaces, members, tx, ext>>

\* supabase.from(t).select('*')
SelectRows(uid, t) ==
  /\ last' = Req("select", uid, NULL, t, <<>>, TRUE,
                 {r \in rows : r.tbl = t /\ RowSelectAllowed(members, uid, r)})
  /\ UNCHANGED <<workspaces, members, rows, signal_trend, trend_megatrend, tx, ext>>

\* ------------------------------------------------ policies: links

\* the signals / trends a policy's sub-select finds: the sub-select runs as
\* the caller, under the SELECT policies of the table it reads
VisibleRow(mem, rws, uid, t, id) ==
  {r \in rws : r.tbl = t /\ r.id = id /\ RowSelectAllowed(mem, uid, r)}

\* "Users can view signal_trend links"
signal_trend_select_using(mem, rws, uid, l) ==
  \E s \in VisibleRow(mem, rws, uid, "signals", l.signal_id) :
    is_workspace_member(mem, uid, s.workspace_id)

\* the FOR ALL policy of signal_trend with the membership test of the SELECT
\* policy in place of the role test
signal_trend_all_using_member(mem, rws, uid, l) ==
  \E s \in VisibleRow(mem, rws, uid, "signals", l.signal_id) :
    is_workspace_member(mem, uid, s.workspace_id)

\* "Members can manage signal_trend links" (FOR ALL)
signal_trend_all_using(mem, rws, uid, l) ==
  \E s \in VisibleRow(mem, rws, uid, "signals", l.signal_id) :
    get_workspace_role(mem, uid, s.workspace_id) \in {"owner", "admin", "member"}

\* "Users can view trend_megatrend links"
trend_megatrend_select_using(mem, rws, uid, l) ==
  \E t \in VisibleRow(mem, rws, uid, "trends", l.trend_id) :
    is_workspace_member(mem, uid, t.workspace_id)

\* "Members can manage trend_megatrend links" (FOR ALL)
trend_megatrend_all_using(mem, rws, uid, l) ==
  \E t \in VisibleRow(mem, rws, uid, "trends", l.trend_id) :
    get_workspace_role(mem, uid, t.workspace_id) \in {"owner", "admin", "member"}

LinkSelectUsing(lt, mem, rws, uid, l) ==
  IF lt = "signal_trend" THEN signal_trend_select_using(mem, rws, uid, l)
                         ELSE trend_megatrend_select_using(mem, rws, uid, l)

LinkAllUsing(lt, mem, rws, uid, l) ==
  IF lt = "signal_trend" THEN signal_trend_all_using(mem, rws, uid, l)
                         ELSE trend_megatrend_all_using(mem, rws, uid, l)

LinkSelectAllowed(lt, mem, rws, uid, l) ==
  LinkSelectUsing(lt, mem, rws, uid, l) \/ LinkAllUsing(lt, mem, rws, uid, l)

LinkDeleteAllowed(lt, mem, rws, uid, l) ==
  LinkSelectAllowed(lt, mem, rws, uid, l) /\ LinkAllUsing(lt, mem, rws, uid, l)

\* REFERENCES ... of the two columns of a link table
LinkForeignKeys(lt, rws, l) ==
  IF lt = "signal_trend"
  THEN /\ \E r \in rws : r.tbl = "signals" /\ r.id = l.signal_id
       /\ \E r \in rws : r.tbl = "trends" /\ r.id = l.trend_id
  ELSE /\ \E r \in rws : r.tbl = "trends" /\ r.id = l.trend_id
       /\ \E r \in rws : r.tbl = "megatrends" /\ r.id = l.megatrend_id

\* INSERT INTO a link table: the policy check of the new row comes first,
\* then the primary key, then the foreign keys, which are checked with the
\* table owner's rights and so see every row
LinkInsertOutcome(lt, mem, rws, links, uid, l) ==
  IF ~LinkAllUsing(lt, mem, rws, uid, l) THEN "rls"
  ELSE IF l \in links THEN "duplicate"
  ELSE IF ~LinkForeignKeys(lt, rws, l) THEN "fk"
  ELSE "none"

\* ------------------------------------------------ links

SignalIds == {"s1"}
TrendIds == {"t1"}
MegatrendIds == {"m1"}

LinkTables == {"signal_trend", "trend_megatrend"}

LinkRows(lt) ==
  IF lt = "signal_trend" THEN [signal_id : SignalIds, trend_id : TrendIds]
                         ELSE [trend_id : TrendIds, megatrend_id : MegatrendIds]

LinksOf(lt) == IF lt = "signal_trend" THEN signal_trend ELSE trend_megatrend

\* supabase.from(lt).insert(l)
InsertLink(uid, lt, l) ==
  LET out == LinkInsertOutcome(lt, members, rows, LinksOf(lt), uid, l)
      new == IF out = "none" THEN {l} ELSE {}
  IN /\ signal_trend' =
          IF lt = "signal_trend" THEN signal_trend \cup new ELSE signal_trend
     /\ trend_megatrend' =
          IF lt = "trend_megatrend" THEN trend_megatrend \cup new ELSE trend_megatrend
     /\ last' = [Req("insert_link", uid, NULL, lt, <<>>, out = "none", {l})
                   EXCEPT !.err = out]
     /\ UNCHANGED <<workspaces, members, rows, tx, ext>>

\* supabase.from(lt).delete() matching the link l
DeleteLink(uid, lt, l) ==
  LET hit == {x \in LinksOf(lt) :
                x = l /\ LinkDeleteAllowed(lt, members, rows, uid, x)}
  IN /\ signal_trend' =
          IF lt = "signal_trend" THEN signal_trend \ hit ELSE signal_trend
     /\ trend_megatrend' =
          IF lt = "trend_megatrend" THEN trend_megatrend \ hit ELSE trend_megatrend
     /\ last' = Req("delete_link", uid, NULL, lt, <<>>, hit # {}, {l})
     /\ UNCHANGED <<workspaces, members, rows, tx, ext>>

\* supabase.from(lt).select('*')
SelectLinks(uid, lt) ==
  /\ last' = Req("select_link", uid, NULL, lt, <<>>, TRUE,
                 {l \in LinksOf(lt) : LinkSelectAllowed(lt, members, rows, uid, l)})
  /\ UNCHANGED <<workspaces, members, rows, signal_trend, trend_megatrend, tx, ext>>

\* ------------------------------------------------ TrendsPage.fetchTrends

\* select('*, signal_trend(signal_id, signals(id, title, summary))') of the
\* trends of workspace w: every table of the embedding is read under the
\* caller's policies, and linkedSignals drops the links whose signal the
\* caller may not read (filter(Boolean))
FetchTrendsResult(mem, rws, st, uid, w) ==
  {[id |-> t.id,
    linkedSignals |->
      {l.signal_id :
         l \in {x \in st :
                  /\ x.trend_id = t.id
                  /\ LinkSelectAllowed("signal_trend", mem, rws, uid, x)
                  /\ VisibleRow(mem, rws, uid, "signals", x.signal_id) # {}}}] :
     t \in {r \in rws : /\ r.tbl = "trends"
                        /\ r.workspace_id = w
                        /\ RowSelectAllowed(mem, uid, r)}}

\* fetchTrends with currentWorkspace w, no filter set, on the first page
\* (the trends of the model fit on one page)
FetchTrends(uid, w) ==
  /\ last' = Req("fetch_trends", uid, w, "trends", <<>>, TRUE,
                 FetchTrendsResult(members, rows, signal_trend, uid, w))
  /\ UNCHANGED <<workspaces, members, rows, signal_trend, trend_megatrend, tx, ext>>

\* ------------------------------------------------ NetworkGraph, ExportPanel

\* supabase.from('signal_trend').select(...) without a filter: every link the
\* caller may read
ReadableLinks(mem, rws, st, uid) ==
  {l \in st : LinkSelectAllowed("signal_trend", mem, rws, uid, l)}

\* the ids of the rows of table t of workspace w the caller may read
ReadableIds(mem, rws, uid, t, w) ==
  {r.id : r \in {x \in rws : /\ x.tbl = t /\ x.workspace_id = w
                             /\ RowSelectAllowed(mem, uid, x)}}

\* NetworkGraph.fetchData: filteredLinks, the links whose signal and trend
\* are among the signals and trends fetched for currentWorkspace w
FilteredLinks(mem, rws, st, uid, w) ==
  {l \in ReadableLinks(mem, rws, st, uid) :
     /\ l.signal_id \in ReadableIds(mem, rws, uid, "signals", w)
     /\ l.trend_id \in ReadableIds(mem, rws, uid, "trends", w)}

\* NetworkGraph.fetchData with currentWorkspace w: the edges of the graph
FetchData(uid, w) ==
  /\ last' = Req("graph", uid, w, "signal_trend", <<>>, TRUE,
                 FilteredLinks(members, rows, signal_trend, uid, w))
  /\ UNCHANGED <<workspaces, members, rows, signal_trend, trend_megatrend, tx, ext>>

\* ExportPanel.exportToCSV with currentWorkspace w: the rows of the links
\* CSV are links of fetchAllData, unfiltered
ExportToCSV(uid, w) ==
  /\ last' = Req("export", uid, w, "signal_trend", <<>>, TRUE,
                 ReadableLinks(members, rows, signal_trend, uid))
  /\ UNCHANGED <<workspaces, members, rows, signal_trend, trend_megatrend, tx, ext>>

\* ------------------------------------------------ TrendsPage.handleDelete

\* first statement: supabase.from('signal_trend').delete().eq('trend_id', trendId);
\* its result is not looked at
HandleDeleteLinks(uid, trendId) ==
  LET hit == {l \in signal_trend :
                /\ l.trend_id = trendId
                /\ LinkDeleteAllowed("signal_trend", members, rows, uid, l)}
  IN /\ del.phase # "links"
     /\ signal_trend' = signal_trend \ hit
     /\ del' = [phase |-> "links", uid |-> uid, trend_id |-> trendId,
                removed |-> hit, cascaded |-> {}]
     /\ UNCHANGED <<workspaces, members, rows, trend_megatrend, tx, last, ui, fn, pages>>

\* second statement: supabase.from('trends').delete().eq('id', trendId); a
\* delete that matches no row the caller may delete is no error
HandleDeleteTrend ==
  LET gone == {r \in rows : /\ r.tbl = "trends"
                            /\ r.id = del.trend_id
                            /\ RowDeleteAllowed(members, del.uid, r)}
  IN /\ del.phase = "links"
     /\ rows' = rows \ gone
     /\ signal_trend' = SignalTrendAfterDelete(signal_trend, gone)
     /\ trend_megatrend' = TrendMegatrendAfterDelete(trend_megatrend, gone)
     /\ del' = [del EXCEPT !.phase = "done",
                           !.cascaded = signal_trend \ signal_trend']
     /\ last' = Req("delete_trend", del.uid, NULL, "trends", <<>>, TRUE, gone)
     /\ UNCHANGED <<workspaces, members, tx, ui, fn, pages>>

\* ------------------------------------------------ JavaScript values

\* A JSON value as the handlers see it: t is its type, v its content
Undefined == [t |-> "undefined", v |-> 0]
JsNull == [t |-> "null", v |-> 0]
NaN == [t |-> "nan", v |-> 0]
Num(n) == [t |-> "num", v |-> n]
Bool(b) == [t |-> "bool", v |-> b]
Str(s) == [t |-> "str", v |-> s]
Arr(a) == [t |-> "arr", v |-> a]
Obj(o) == [t |-> "obj", v |-> o]

\* what JSON.parse yields for a text that is no JSON
ParseError == [t |-> "error", v |-> 0]

\* the value's truthiness, as !x, x || y and x ? y : z test it
Truthy(x) ==
  CASE x.t \in {"undefined", "null", "nan"} -> FALSE
    [] x.t = "bool" -> x.v
    [] x.t = "num" -> x.v # 0
    [] x.t = "str" -> x.v # <<>>
    [] x.t \in {"arr", "obj"} -> TRUE

Digits == <<"0", "1", "2", "3", "4", "5", "6", "7", "8", "9">>

IsDigit(c) == \E i \in 1..Len(Digits) : Digits[i] = c

DigitValue(c) == (CHOOSE i \in 1..Len(Digits) : Digits[i] = c) - 1

RECURSIVE DigitsValue(_)
DigitsValue(s) ==
  IF s = <<>> THEN 0
  ELSE 10 * DigitsValue(SubSeq(s, 1, Len(s) - 1)) + DigitValue(s[Len(s)])

RECURSIVE NaturalToString(_)
NaturalToString(n) ==
  IF n < 10 THEN <<Digits[n + 1]>>
  ELSE NaturalToString(n \div 10) \o <<Digits[(n % 10) + 1]>>

\* Number(s) of a string: blank is 0, decimal digits are their number, any
\* other text is NaN (signs, fractions and exponents do not occur here)
StringToNumber(s) ==
  IF Trim(s) = <<>> THEN Num(0)
  ELSE IF \A i \in 1..Len(Trim(s)) : IsDigit(Trim(s)[i])
       THEN Num(DigitsValue(Trim(s)))
       ELSE NaN

\* Number(x), for the scalars
ToNumber(x) ==
  CASE x.t \in {"undefined", "nan", "obj"} -> NaN
    [] x.t = "null" -> Num(0)
    [] x.t = "bool" -> Num(IF x.v THEN 1 ELSE 0)
    [] x.t = "num" -> x
    [] x.t = "str" -> StringToNumber(x.v)

\* String(x), for the scalars
StringOf(x) ==
  CASE x.t = "str" -> x.v
    [] x.t = "num" -> IF x.v < 0 THEN <<"-">> \o NaturalToString(0 - x.v)
                                 ELSE NaturalToString(x.v)
    [] x.t = "bool" -> IF x.v THEN <<"t", "r", "u", "e">>
                              ELSE <<"f", "a", "l", "s", "e">>
    [] x.t = "null" -> <<"n", "u", "l", "l">>
    [] x.t = "undefined" -> <<"u", "n", "d", "e", "f", "i", "n", "e", "d">>
    [] x.t = "nan" -> <<"N", "a", "N">>

UpperCase == <<"A", "B", "C", "D", "E", "F", "G", "H", "I", "J", "K", "L", "M",
               "N", "O", "P", "Q", "R", "S", "T", "U", "V", "W", "X", "Y", "Z">>

LowerCase == <<"a", "b", "c", "d", "e", "f", "g", "h", "i", "j", "k", "l", "m",
               "n", "o", "p", "q", "r", "s", "t", "u", "v", "w", "x", "y", "z">>

\* String.prototype.toLowerCase
ToLowerCase(s) ==
  [i \in 1..Len(s) |->
     IF \E k \in 1..Len(UpperCase) : UpperCase[k] = s[i]
     THEN LowerCase[CHOOSE k \in 1..Len(UpperCase) : UpperCase[k] = s[i]]
     ELSE s[i]]

WhiteSpace == {" ", "\t", "\n"}

RECURSIVE SkipWhiteSpace(_)
SkipWhiteSpace(s) ==
  IF s # <<>> /\ Head(s) \in WhiteSpace THEN SkipWhiteSpace(Tail(s)) ELSE s

\* s.replace(/\s+/g, "-")
RECURSIVE ReplaceWhiteSpace(_)
ReplaceWhiteSpace(s) ==
  IF s = <<>> THEN <<>>
  ELSE IF Head(s) \in WhiteSpace
       THEN <<"-">> \o ReplaceWhiteSpace(SkipWhiteSpace(s))
       ELSE <<Head(s)>> \o ReplaceWhiteSpace(Tail(s))

\* s.substring(0, n) and a.slice(0, n)
Substring(s, n) == SubSeq(s, 1, IF Len(s) < n THEN Len(s) ELSE n)

\* s.startsWith(p)
StartsWith(s, p) == Len(s) >= Len(p) /\ SubSeq(s, 1, Len(p)) = p

\* a text of n characters
Text(n) == [i \in 1..n |-> "x"]

\* ------------------------------------------------ serverless handlers

\* What a handler did with one request: the requests it sent to its provider,
\* the response's status, error text and body, and the message of the
\* exception its catch block received ("none" when nothing was thrown)
Out(sent, status, error, body, thrown) ==
  [sent |-> sent, status |-> status, error |-> error, body |-> body,
   thrown |-> thrown]

NoBody == [empty |-> TRUE]

\* a request to a provider: the endpoint, and the url a scrape asks for
Request(to, url) == [to |-> to, url |-> url]

Error(message) == [isError |-> TRUE, message |-> message]

\* catch (error): error instanceof Error ? error.message : fallback
CatchMessage(e, fallback) == IF e.isError THEN e.message ELSE fallback

\* response.ok
ResponseOk(reply) == reply.status >= 200 /\ reply.status <= 299

\* a property of the parsed payload; a payload that is no object has none
Field(parsed, name) == IF parsed.t = "obj" THEN parsed.v[name] ELSE Undefined

SummaryMax == 1200
TakeawaysMax == 3
TagsMax == 6
RelevanceMin == 0
RelevanceMax == 100
RelevanceDefault == 50
DescriptionMax == 1800

Horizons == {<<"0", "_", "5">>, <<"5", "_", "1", "0">>,
             <<"1", "0", "_", "p", "l", "u", "s">>}
HorizonDefault == <<"5", "_", "1", "0">>

Certainties == {<<"c", "e", "r", "t", "a", "i", "n">>,
                <<"u", "n", "c", "e", "r", "t", "a", "i", "n">>,
                <<"w", "i", "l", "d", "c", "a", "r", "d">>}
CertaintyDefault == <<"u", "n", "c", "e", "r", "t", "a", "i", "n">>

\* "Key insight 1", "Key insight 2", "Key insight 3", shortened
TakeawaysDefault == <<<<"K", "1">>, <<"K", "2">>, <<"K", "3">>>>
TagsDefault == <<<<"u", "n", "c", "l", "a", "s", "s", "i", "f", "i", "e", "d">>>>

\* summarize-signal: "Validate and sanitize response"
SanitizeSummary(x) == Substring(StringOf(IF Truthy(x) THEN x ELSE Str(<<>>)), SummaryMax)

SanitizeTakeaways(x) ==
  IF x.t = "arr"
  THEN [i \in 1..Len(Substring(x.v, TakeawaysMax)) |-> StringOf(x.v[i])]
  ELSE TakeawaysDefault

SanitizeTags(x) ==
  IF x.t = "arr"
  THEN [i \in 1..Len(Substring(x.v, TagsMax)) |->
          ReplaceWhiteSpace(ToLowerCase(StringOf(x.v[i])))]
  ELSE TagsDefault

SanitizeRelevance(x) ==
  LET n == IF Truthy(ToNumber(x)) THEN ToNumber(x).v ELSE RelevanceDefault
      lo == IF n < RelevanceMin THEN RelevanceMin ELSE n
  IN IF lo > RelevanceMax THEN RelevanceMax ELSE lo

SanitizeHorizon(x) ==
  IF x.t = "str" /\ x.v \in Horizons THEN x.v ELSE HorizonDefault

SanitizeCertainty(x) ==
  IF x.t = "str" /\ x.v \in Certainties THEN x.v ELSE CertaintyDefault

Sanitize(parsed) ==
  [summary |-> SanitizeSummary(Field(parsed, "summary")),
   takeaways |-> SanitizeTakeaways(Field(parsed, "takeaways")),
   tags |-> SanitizeTags(Field(parsed, "tags")),
   relevance |-> SanitizeRelevance(Field(parsed, "relevance")),
   horizon |-> SanitizeHorizon(Field(parsed, "horizon")),
   certainty |-> SanitizeCertainty(Field(parsed, "certainty"))]

\* summarize-signal: the provider answered with !response.ok
SummarizeProviderError(sent, reply) ==
  IF reply.status = 429
  THEN Out(sent, 429, "Rate limit exceeded. Please try again later.", NoBody, "none")
  ELSE IF reply.status = 402
  THEN Out(sent, 402, "AI credits exhausted. Please add more credits.", NoBody, "none")
  ELSE Out(sent, 500, "AI service error", NoBody, "none")

CatchSummarize(sent, e) ==
  Out(sent, 500, CatchMessage(e, "Unknown error"), NoBody, e.message)

\* summarize-signal, the request handler.  req.json says whether the request
\* body is JSON, key whether LOVABLE_API_KEY is set; reply.content is the
\* message text of the first choice and reply.parsed what JSON.parse makes of
\* it once the code fences are stripped.
SummarizeSignal(req, key, reply) ==
  LET sent == <<Request("ai.gateway.lovable.dev/v1/chat/completions", <<>>)>>
  IN IF ~req.json
     THEN CatchSummarize(<<>>, Error("Unexpected end of JSON input"))
     ELSE IF ~Truthy(req.content)
     THEN Out(<<>>, 400, "Content is required", NoBody, "none")
     ELSE IF req.content.t # "str"
     THEN CatchSummarize(<<>>, Error("content.trim is not a function"))
     ELSE IF Len(Trim(req.content.v)) = 0
     THEN Out(<<>>, 400, "Content is required", NoBody, "none")
     ELSE IF ~key
     THEN Out(<<>>, 500, "AI service not configured", NoBody, "none")
     ELSE IF reply.kind = "throw"
     THEN CatchSummarize(sent, Error("error sending request for url"))
     ELSE IF ~ResponseOk(reply)
     THEN SummarizeProviderError(sent, reply)
     ELSE IF ~reply.json
     THEN CatchSummarize(sent, Error("Unexpected token < in JSON at position 0"))
     ELSE IF ~Truthy(reply.content)
     THEN Out(sent, 500, "No response from AI", NoBody, "none")
     ELSE IF reply.parsed = ParseError
     THEN Out(sent, 500, "Failed to parse AI response", NoBody, "none")
     ELSE IF reply.parsed.t \in {"null", "undefined"}
     THEN CatchSummarize(sent, Error("Cannot read properties of null (reading 'summary')"))
     ELSE Out(sent, 200, "none", Sanitize(reply.parsed), "none")

\* generate-trend-description: the provider answered with !response.ok
DescriptionProviderError(sent, reply) ==
  IF reply.status = 429
  THEN Out(sent, 429, "Rate limit exceeded. Please try again later.", NoBody, "none")
  ELSE Out(sent, 500, "AI service error", NoBody, "none")

CatchDescription(sent, e) ==
  Out(sent, 500, CatchMessage(e, "Unknown error"), NoBody, e.message)

\* generate-trend-description, the request handler
GenerateTrendDescription(req, key, reply) ==
  LET sent == <<Request("ai.gateway.lovable.dev/v1/chat/completions", <<>>)>>
  IN IF ~req.json
     THEN CatchDescription(<<>>, Error("Unexpected end of JSON input"))
     ELSE IF ~Truthy(req.title)
     THEN Out(<<>>, 400, "Title is required", NoBody, "none")
     ELSE IF ~key
     THEN Out(<<>>, 500, "AI service not configured", NoBody, "none")
     ELSE IF req.signals.t \in {"null", "undefined"}
     THEN CatchDescription(<<>>, Error("Cannot read properties of undefined (reading 'length')"))
     ELSE IF reply.kind = "throw"
     THEN CatchDescription(sent, Error("error sending request for url"))
     ELSE IF ~ResponseOk(reply)
     THEN DescriptionProviderError(sent, reply)
     ELSE IF ~reply.json
     THEN CatchDescription(sent, Error("Unexpected token < in JSON at position 0"))
     ELSE IF reply.content.t \notin {"null", "undefined", "str"}
     THEN CatchDescription(sent, Error("data.choices?.[0]?.message?.content?.trim is not a function"))
     ELSE IF ~Truthy(reply.content) \/ Trim(reply.content.v) = <<>>
     THEN Out(sent, 500, "No response from AI", NoBody, "none")
     ELSE Out(sent, 200, "none",
              [description |-> Substring(Trim(reply.content.v), DescriptionMax)],
              "none")

\* ------------------------------------------------ firecrawl-scrape

HttpPrefix == <<"h", "t", "t", "p", ":", "/", "/">>
HttpsPrefix == <<"h", "t", "t", "p", "s", ":", "/", "/">>

FormatUrlTrimOnly(url) == Trim(url)

\* "Format URL"
FormatUrl(url) ==
  IF ~StartsWith(Trim(url), HttpPrefix) /\ ~StartsWith(Trim(url), HttpsPrefix)
  THEN HttpsPrefix \o Trim(url)
  ELSE Trim(url)

ScrapeUrlMissingNever(url) == FALSE

\* if (!url)
ScrapeUrlMissing(url) == ~Truthy(url)

\* cleanContent: the boilerplate patterns match none of the texts used here,
\* which leaves the final trim
cleanContent(markdown) == Trim(markdown)

CatchScrape(sent, e) ==
  Out(sent, 500, CatchMessage(e, "Failed to scrape"), NoBody, e.message)

\* firecrawl-scrape, the request handler.  key says whether FIRECRAWL_API_KEY
\* is set; reply.error is the provider's data.error ("" when it gives none)
\* and reply.content its data.data?.markdown.
FirecrawlScrape(req, key, reply) ==
  IF ~req.json
  THEN CatchScrape(<<>>, Error("Unexpected end of JSON input"))
  ELSE IF ScrapeUrlMissing(req.url)
  THEN Out(<<>>, 400, "URL is required", NoBody, "none")
  ELSE IF ~key
  THEN Out(<<>>, 500,
           "Firecrawl connector not configured. Please connect Firecrawl in Settings.",
           NoBody, "none")
  ELSE IF req.url.t # "str"
  THEN CatchScrape(<<>>, Error("url.trim is not a function"))
  ELSE LET sent == <<Request("api.firecrawl.dev/v1/scrape", FormatUrl(req.url.v))>>
       IN IF reply.kind = "throw"
          THEN CatchScrape(sent, Error("error sending request for url"))
          ELSE IF ~reply.json
          THEN CatchScrape(sent, Error("Unexpected token < in JSON at position 0"))
          ELSE IF ~ResponseOk(reply)
          THEN Out(sent, reply.status,
                   IF reply.error # "" THEN reply.error
                                       ELSE "Request failed with status",
                   NoBody, "none")
          ELSE Out(sent, 200, "none",
                   [markdown |-> cleanContent(IF Truthy(reply.content)
                                              THEN reply.content.v ELSE <<>>)],
                   "none")

\* ------------------------------------------------ calls of the handlers

Call(handler, req, key, reply, out) ==
  [handler |-> handler, req |-> req, key |-> key, reply |-> reply,
   sent |-> out.sent, status |-> out.status, error |-> out.error,
   body |-> out.body, thrown |-> out.thrown]

\* a provider's answer: the fetch threw, or a response with a status and a
\* body that is JSON or not
Reply(kind, status, json, content, parsed, error) ==
  [kind |-> kind, status |-> status, json |-> json, content |-> content,
   parsed |-> parsed, error |-> error]

FetchThrows == Reply("throw", 0, FALSE, Undefined, ParseError, "")

\* a call the handler has not answered yet
Pending == Out(<<>>, 0, "none", NoBody, "none")

NoFn == Call("none", [json |-> TRUE], TRUE, FetchThrows, Pending)

Handle(handler, req, key, reply) ==
  CASE handler = "summarize-signal" -> SummarizeSignal(req, key, reply)
    [] handler = "generate-trend-description" -> GenerateTrendDescription(req, key, reply)
    [] handler = "firecrawl-scrape" -> FirecrawlScrape(req, key, reply)

\* serve(async (req) => ...): the handler answers the request at hand
Invoke(handler) ==
  /\ fn.handler = handler
  /\ fn.status = Pending.status
  /\ fn' = Call(handler, fn.req, fn.key, fn.reply,
                Handle(handler, fn.req, fn.key, fn.reply))
  /\ UNCHANGED <<workspaces, members, rows, signal_trend, trend_megatrend,
                 tx, last, del, ui, pages>>

\* ------------------------------------------------ SignalCollector

NoUi == [url |-> <<>>, title |-> <<>>, content |-> <<>>, aiResult |-> NoBody]

MinContentLength == 100

\* onChange of the URL, title and content fields
SetUrl(typed) ==
  /\ ui' = [ui EXCEPT !.url = typed]
  /\ UNCHANGED <<workspaces, members, rows, signal_trend, trend_megatrend,
                 tx, last, del, fn, pages>>

SetTitle(typed) ==
  /\ ui' = [ui EXCEPT !.title = typed]
  /\ UNCHANGED <<workspaces, members, rows, signal_trend, trend_megatrend,
                 tx, last, del, fn, pages>>

SetContent(typed) ==
  /\ ui' = [ui EXCEPT !.content = typed]
  /\ UNCHANGED <<workspaces, members, rows, signal_trend, trend_megatrend,
                 tx, last, del, fn, pages>>

\* handleFetchUrl: every failure ends in a toast; the page title of the
\* scrape's metadata is left out
HandleFetchUrl(key, reply) ==
  LET req == [json |-> TRUE, url |-> Str(Trim(ui.url))]
      out == FirecrawlScrape(req, key, reply)
  IN /\ Trim(ui.url) # <<>>
     /\ fn' = Call("firecrawl-scrape", req, key, reply, out)
     /\ ui' = IF out.status = 200 /\ out.body.markdown # <<>>
              THEN [ui EXCEPT !.content = out.body.markdown]
              ELSE ui
     /\ UNCHANGED <<workspaces, members, rows, signal_trend, trend_megatrend,
                    tx, last, del, pages>>

HandleAnalyzeSaving(key, reply) ==
  LET req == [json |-> TRUE, content |-> Str(Trim(ui.content))]
      out == SummarizeSignal(req, key, reply)
  IN /\ Len(Trim(ui.content)) >= MinContentLength
     /\ fn' = Call("summarize-signal", req, key, reply, out)
     /\ ui' = IF out.status = 200 THEN [ui EXCEPT !.aiResult = out.body] ELSE ui
     /\ rows' = IF out.status = 200
                THEN rows \cup {[tbl |-> "signals", id |-> "s1", workspace_id |-> "w1"]}
                ELSE rows
     /\ UNCHANGED <<workspaces, members, signal_trend, trend_megatrend,
                    tx, last, del, pages>>

\* handleAnalyze
HandleAnalyze(key, reply) ==
  LET req == [json |-> TRUE, content |-> Str(Trim(ui.content))]
      out == SummarizeSignal(req, key, reply)
  IN /\ Trim(ui.content) # <<>>
     /\ Len(Trim(ui.content)) >= MinContentLength
     /\ fn' = Call("summarize-signal", req, key, reply, out)
     /\ ui' = IF out.status = 200 THEN [ui EXCEPT !.aiResult = out.body] ELSE ui
     /\ UNCHANGED <<workspaces, members, rows, signal_trend, trend_megatrend,
                    tx, last, del, pages>>

\* handleSave: relevance: aiResult?.relevance || 50
SaveRelevanceDefault == 50

SavedRelevance(aiResult) ==
  IF Truthy(Num(aiResult.relevance)) THEN aiResult.relevance ELSE SaveRelevanceDefault

\* handleSave: supabase.from('signals').insert(signalData)
HandleSave(user, w, id) ==
  /\ user # NULL
  /\ Trim(ui.title) # <<>>
  /\ InsertRow(user, "signals", w, id)

\* ------------------------------------------------ created_at, updated_at

MaxClock == 2

\* a timestamp a client supplies, or Default when it leaves the column out
Default == 0 - 1

Supplied == (0..MaxClock) \cup {Default}

\* time passes
Tick ==
  /\ clock < MaxClock
  /\ clock' = clock + 1
  /\ UNCHANGED <<workspaces, members, rows, signal_trend, trend_megatrend,
                 tx, last, del, ui, fn, saves, wp, sp>>

\* update_updated_at_column, the BEFORE UPDATE trigger of workspaces,
\* profiles, sources, signals, trends and megatrends
update_updated_at_column(new, now) == [new EXCEPT !.updated_at = now]

\* INSERT INTO signals: created_at and updated_at DEFAULT now(), unless the
\* client supplies them (the Insert type offers both)
InsertRowAt(uid, w, id, c, u) ==
  LET new == [tbl |-> "signals", id |-> id, workspace_id |-> w,
              created_at |-> IF c = Default THEN clock ELSE c,
              updated_at |-> IF u = Default THEN clock ELSE u]
      ok == /\ RowInsertAllowed(members, uid, new)
            /\ \E x \in workspaces : x.id = w
  IN /\ id \notin {r.id : r \in rows}
     /\ rows' = IF ok THEN rows \cup {new} ELSE rows
     /\ last' = Req("insert", uid, w, "signals", <<>>, ok, {new})
     /\ UNCHANGED <<workspaces, members, signal_trend, trend_megatrend, tx, ext>>

\* UPDATE signals SET created_at = c, updated_at = u, ... WHERE id = r.id (the
\* Update type offers both columns); the trigger then overwrites updated_at
UpdateRowAt(uid, r, c, u) ==
  LET set == [r EXCEPT !.created_at = IF c = Default THEN @ ELSE c,
                       !.updated_at = IF u = Default THEN @ ELSE u]
      new == update_updated_at_column(set, clock)
      ok == RowUpdateAllowed(members, uid, r, new)
  IN /\ r \in rows
     /\ rows' = IF ok THEN (rows \ {r}) \cup {new} ELSE rows
     /\ last' = Req("update", uid, r.workspace_id, r.tbl, <<>>, ok, {new})
     /\ UNCHANGED <<workspaces, members, signal_trend, trend_megatrend, tx, ext>>

\* ------------------------------------------------ TrendsPage.handleSaveLinks

\* the browser sessions that save links, and the signals they choose from
Sessions == {"X", "Y"}
SaveSignalIds == {"s1", "s2"}

NoSave == [phase |-> "idle", uid |-> NULL, trend_id |-> NULL,
           sel |-> {}, before |-> {}]

\* every session idle and no save finished yet; finished lists the sessions
\* in the order their saves ended
NoSaves == [of |-> [s \in Sessions |-> NoSave], finished |-> <<>>]

LinksOfTrend(st, trendId) == {l \in st : l.trend_id = trendId}

\* selectedSignals as the rows of the insert
SelectedLinks(sel, trendId) == {[signal_id |-> x, trend_id |-> trendId] : x \in sel}

\* first statement: supabase.from('signal_trend').delete().eq('trend_id',
\* linkingTrend.id), its result not looked at; with nothing selected the
\* handler is through and reports success
SaveLinksDelete(s, uid, trendId, sel) ==
  LET hit == {l \in LinksOfTrend(signal_trend, trendId) :
                LinkDeleteAllowed("signal_trend", members, rows, uid, l)}
      through == sel = {}
  IN /\ saves.of[s].phase = "idle"
     /\ signal_trend' = signal_trend \ hit
     /\ saves' = [of |-> [saves.of EXCEPT ![s] =
                            [phase |-> IF through THEN "done" ELSE "deleted",
                             uid |-> uid, trend_id |-> trendId, sel |-> sel,
                             before |-> LinksOfTrend(signal_trend, trendId)]],
                  finished |-> IF through THEN Append(saves.finished, s)
                                          ELSE saves.finished]
     /\ UNCHANGED <<workspaces, members, rows, trend_megatrend, tx, last,
                    del, ui, fn, clock, wp, sp>>

\* INSERT of several rows is one statement: a row the policy, the primary
\* key or a foreign key rejects fails the statement and no row is stored
SaveLinksInsertOk(mem, rws, links, uid, new) ==
  \A l \in new : LinkInsertOutcome("signal_trend", mem, rws, links, uid, l) = "none"

\* second statement: supabase.from('signal_trend').insert(links); an error
\* is thrown and ends in the toast 'Failed to update links'
SaveLinksInsert(s) ==
  LET me == saves.of[s]
      new == SelectedLinks(me.sel, me.trend_id)
      ok == SaveLinksInsertOk(members, rows, signal_trend, me.uid, new)
  IN /\ me.phase = "deleted"
     /\ signal_trend' = IF ok THEN signal_trend \cup new ELSE signal_trend
     /\ saves' = [of |-> [saves.of EXCEPT ![s].phase =
                            IF ok THEN "done" ELSE "failed"],
                  finished |-> Append(saves.finished, s)]
     /\ UNCHANGED <<workspaces, members, rows, trend_megatrend, tx, last,
                    del, ui, fn, clock, wp, sp>>

\* ------------------------------------------------ WorkspaceProvider

\* useState: workspaces [] and currentWorkspace null; pending is the fetch
\* the effect on [user] has scheduled and that has not completed
NoWp == [user |-> NULL, workspaces |-> {}, currentWorkspace |-> NULL,
         pending |-> FALSE]

\* supabase.from('workspaces').select('*'): the ids the caller may read
ReadableWorkspaces(ws, mem, uid) ==
  {w.id : w \in {x \in ws : workspaces_select_using(mem, uid, x)}}

\* the auth state changes: the effect on [user] schedules fetchWorkspaces
SignIn(u) ==
  /\ wp.user # u
  /\ wp' = [wp EXCEPT !.user = u, !.pending = TRUE]
  /\ UNCHANGED <<workspaces, members, rows, signal_trend, trend_megatrend,
                 tx, last, del, ui, fn, clock, saves, sp>>

SignOut ==
  /\ wp.user # NULL
  /\ wp' = [wp EXCEPT !.user = NULL, !.pending = TRUE]
  /\ UNCHANGED <<workspaces, members, rows, signal_trend, trend_megatrend,
                 tx, last, del, ui, fn, clock, saves, sp>>

\* what fetchWorkspaces leaves in the provider: without a user both are
\* emptied; with one the list is replaced and currentWorkspace is set only
\* when there was none, to typedData[0] (first: the list is ordered by
\* created_at, which the workspaces of the model do not carry)
AfterFetch(p, list, first) ==
  IF p.user = NULL
  THEN [p EXCEPT !.workspaces = {}, !.currentWorkspace = NULL, !.pending = FALSE]
  ELSE [p EXCEPT !.workspaces = list,
                 !.currentWorkspace =
                    IF list # {} /\ p.currentWorkspace = NULL THEN first ELSE @,
                 !.pending = FALSE]

\* fetchWorkspaces, run by the effect or as refreshWorkspaces
FetchWorkspaces ==
  LET list == ReadableWorkspaces(workspaces, members, wp.user)
  IN /\ \E first \in list \cup {NULL} :
          /\ (list # {}) => first \in list
          /\ wp' = AfterFetch(wp, list, first)
     /\ UNCHANGED <<workspaces, members, rows, signal_trend, trend_megatrend,
                    tx, last, del, ui, fn, clock, saves, sp>>

\* the workspace menu of DashboardLayout: setCurrentWorkspace(ws) for a ws
\* of the list
SetCurrentWorkspace(w) ==
  /\ w \in wp.workspaces
  /\ wp' = [wp EXCEPT !.currentWorkspace = w]
  /\ UNCHANGED <<workspaces, members, rows, signal_trend, trend_megatrend,
                 tx, last, del, ui, fn, clock, saves, sp>>

\* createWorkspace: the rpc, the select of the new row, fetchWorkspaces, then
\* setCurrentWorkspace(the new row)
CreateWorkspace(name) ==
  /\ wp.user # NULL
  /\ \E id \in FreeWsIds :
       /\ create_workspace_with_owner(wp.user, name, id, "create")
       /\ wp' = [AfterFetch(wp, ReadableWorkspaces(workspaces', members', wp.user), id)
                   EXCEPT !.currentWorkspace = id]
  /\ UNCHANGED <<rows, signal_trend, trend_megatrend, tx, del, ui, fn,
                 clock, saves, sp>>

\* ------------------------------------------------ SignalsPage

ITEMS_PER_PAGE == 20

\* the most signals the workspace of the page holds
MaxSignals == 21

\* the horizon and certainty of the signals stored
Kinds == {[horizon |-> <<"0", "_", "5">>,
           certainty |-> <<"c", "e", "r", "t", "a", "i", "n">>],
          [horizon |-> HorizonDefault, certainty |-> CertaintyDefault]}

\* the value of a filter select for "All": the filter is null
NoFilter == <<>>

\* useState of the page, and stored: the signals of the current workspace
\* in the database, counted by kind
NoSp == [currentPage |-> 1, totalCount |-> 0, filterHorizon |-> NoFilter,
         filterCertainty |-> NoFilter, stored |-> [k \in Kinds |-> 0]]

RECURSIVE SumOver(_, _)
SumOver(f, S) ==
  IF S = {} THEN 0
  ELSE LET k == CHOOSE x \in S : TRUE IN f[k] + SumOver(f, S \ {k})

\* the kinds the filters of the query let through
Matching(s) ==
  {k \in Kinds : /\ s.filterHorizon = NoFilter \/ k.horizon = s.filterHorizon
                 /\ s.filterCertainty = NoFilter \/ k.certainty = s.filterCertainty}

\* Math.ceil(totalCount / ITEMS_PER_PAGE)
TotalPages(totalCount) == (totalCount + ITEMS_PER_PAGE - 1) \div ITEMS_PER_PAGE

\* the length of data: the rows of the range of currentPage
ShownSignals(s) ==
  LET left == s.totalCount - (s.currentPage - 1) * ITEMS_PER_PAGE
  IN IF left <= 0 THEN 0 ELSE IF left > ITEMS_PER_PAGE THEN ITEMS_PER_PAGE ELSE left

\* fetchSignals: count: 'exact' is the number of matching rows, whatever the
\* range asked for
fetchSignals(s) == [s EXCEPT !.totalCount = SumOver(s.stored, Matching(s))]

SpFrame ==
  UNCHANGED <<workspaces, members, rows, signal_trend, trend_megatrend,
              tx, last, del, ui, fn, clock, saves, wp>>

\* the Previous and Next buttons, shown when totalPages > 1; the effect on
\* currentPage refetches
PreviousPage ==
  /\ TotalPages(sp.totalCount) > 1
  /\ sp.currentPage # 1
  /\ sp' = fetchSignals([sp EXCEPT !.currentPage = @ - 1])
  /\ SpFrame

NextPage ==
  /\ TotalPages(sp.totalCount) > 1
  /\ sp.currentPage # TotalPages(sp.totalCount)
  /\ sp' = fetchSignals([sp EXCEPT !.currentPage = @ + 1])
  /\ SpFrame

\* onChange of the two filter selects: the filter, then setCurrentPage(1)
SetFilterHorizon(h) ==
  /\ sp' = fetchSignals([sp EXCEPT !.filterHorizon = h, !.currentPage = 1])
  /\ SpFrame

SetFilterCertainty(c) ==
  /\ sp' = fetchSignals([sp EXCEPT !.filterCertainty = c, !.currentPage = 1])
  /\ SpFrame

\* handleDelete of a signal of the page: the delete, then fetchSignals()
HandleDeleteSignal(k) ==
  /\ ShownSignals(sp) > 0
  /\ k \in Matching(sp)
  /\ sp.stored[k] > 0
  /\ sp' = fetchSignals([sp EXCEPT !.stored[k] = @ - 1])
  /\ SpFrame

\* SignalCollector's onSuccess: a signal saved, then fetchSignals()
CollectSignal(k) ==
  /\ SumOver(sp.stored, Kinds) < MaxSignals
  /\ sp' = fetchSignals([sp EXCEPT !.stored[k] = @ + 1])
  /\ SpFrame

\* ------------------------------------------------ the pages at rest

PagesAtRest ==
  /\ clock = 0
  /\ saves = NoSaves
  /\ wp = NoWp
  /\ sp = NoSp

\* ------------------------------------------------ specification

NoReq == Req("none", NULL, NULL, NULL, <<>>, TRUE, {})

Init ==
  /\ workspaces = {}
  /\ members = {}
  /\ rows = {}
  /\ signal_trend = {}
  /\ trend_megatrend = {}
  /\ tx = NoTx
  /\ last = NoReq
  /\ del = NoDel
  /\ ui = NoUi
  /\ fn = NoFn
  /\ PagesAtRest

Next ==
  \/ \E u \in Callers, n \in Names : RpcCreateWorkspace(u, n)
  \/ \E u \in Callers, n \in TypedNames : HandleCreateWorkspace(u, n)
  \/ \E u \in Callers, n \in Names : InsertWorkspace(u, n)
  \/ \E u \in Callers, w \in WsIds, t \in Users, r \in app_role :
       InsertMember(u, w, t, r)
  \/ \E u \in Callers, w \in WsIds, t \in Users, r \in app_role :
       UpdateMember(u, w, t, r)
  \/ \E u \in Callers, w \in WsIds, t \in Users : DeleteMember(u, w, t)

Spec == Init /\ [][Next]_vars

\* Content under a given membership.  Every relation over the two workspaces
\* with at most MaxMembers rows is reachable under Spec (ReachInit): the creator of a
\* workspace is its owner and may insert any member with any role, change any
\* role (its own too) and delete any row.
MemberRows == [workspace_id : WsIds, user_id : Users, role : app_role]

Memberships(n) ==
  {mem \in SUBSET MemberRows :
     /\ Cardinality(mem) <= n
     /\ \A m1, m2 \in mem :
          (m1.workspace_id = m2.workspace_id /\ m1.user_id = m2.user_id) => m1 = m2}

InitContentN(n) ==
  /\ workspaces = {[id |-> w, name |-> <<"a">>] : w \in WsIds}
  /\ members \in Memberships(n)
  /\ rows = {}
  /\ signal_trend = {}
  /\ trend_megatrend = {}
  /\ tx = NoTx
  /\ last = NoReq
  /\ del = NoDel
  /\ ui = NoUi
  /\ fn = NoFn
  /\ PagesAtRest

InitContent == InitContentN(MaxInitMembers)

NextContent ==
  \/ \E u \in Callers, w \in WsIds, t \in Users, r \in app_role :
       UpdateMember(u, w, t, r)
  \/ \E u \in Callers, w \in WsIds, t \in Users : DeleteMember(u, w, t)
  \/ \E u \in Callers, t \in ContentTables, w \in WsIds, id \in RowIds :
       InsertRow(u, t, w, id)
  \/ \E u \in Callers, r \in rows, w \in WsIds : UpdateRow(u, r, w)
  \/ \E u \in Callers, r \in rows : DeleteRow(u, r)
  \/ \E u \in Callers, t \in ContentTables : SelectRows(u, t)

SpecContent == InitContent /\ [][NextContent]_vars

\* the same operations with more members to start from
InitContentWide == InitContentN(MaxMembers)

SpecContentWide == InitContentWide /\ [][NextContent]_vars

\* Links over given content.  A signal, a trend and a megatrend, each absent
\* or in either workspace: content the writers of the workspaces can have
\* inserted before the membership became what it is now.
ContentStates ==
  {rs \in SUBSET ([tbl : {"signals"}, id : SignalIds, workspace_id : WsIds]
                    \cup [tbl : {"trends"}, id : TrendIds, workspace_id : WsIds]
                    \cup [tbl : {"megatrends"}, id : MegatrendIds, workspace_id : WsIds]) :
     \A r1, r2 \in rs : (r1.tbl = r2.tbl /\ r1.id = r2.id) => r1 = r2}

InitLinks ==
  /\ workspaces = {[id |-> w, name |-> <<"a">>] : w \in WsIds}
  /\ members \in Memberships(MaxInitMembers)
  /\ rows \in ContentStates
  /\ signal_trend = {}
  /\ trend_megatrend = {}
  /\ tx = NoTx
  /\ last = NoReq
  /\ del = NoDel
  /\ ui = NoUi
  /\ fn = NoFn
  /\ PagesAtRest

NextLinks ==
  \/ \E u \in Callers, lt \in LinkTables : \E l \in LinkRows(lt) : InsertLink(u, lt, l)
  \/ \E u \in Callers, lt \in LinkTables : \E l \in LinkRows(lt) : DeleteLink(u, lt, l)
  \/ \E u \in Callers, lt \in LinkTables : SelectLinks(u, lt)
  \/ \E u \in Callers, r \in rows : DeleteRow(u, r)
  \/ \E u \in Callers, w \in WsIds, t \in Users, r \in app_role :
       UpdateMember(u, w, t, r)
  \/ \E u \in Callers, w \in WsIds, t \in Users : DeleteMember(u, w, t)

SpecLinks == InitLinks /\ [][NextLinks]_vars

\* Links over content the callers insert themselves, with more members to
\* start from
InitLinksWide == InitContentN(MaxMembers)

NextLinksWide ==
  \/ \E u \in Callers, w \in WsIds : InsertRow(u, "signals", w, "s1")
  \/ \E u \in Callers, w \in WsIds : InsertRow(u, "trends", w, "t1")
  \/ \E u \in Callers, lt \in LinkTables : \E l \in LinkRows(lt) : InsertLink(u, lt, l)
  \/ \E u \in Callers, lt \in LinkTables : \E l \in LinkRows(lt) : DeleteLink(u, lt, l)
  \/ \E u \in Callers, lt \in LinkTables : SelectLinks(u, lt)
  \/ \E u \in Callers, r \in rows : DeleteRow(u, r)

SpecLinksWide == InitLinksWide /\ [][NextLinksWide]_vars

\* create_workspace_with_owner step by step, with other sessions inserting and
\* deleting members meanwhile
NextTx ==
  \/ \E u \in Callers, n \in Names : RpcBegin(u, n)
  \/ RpcFinish
  \/ \E u \in Callers, w \in WsIds, t \in Users, r \in app_role :
       InsertMember(u, w, t, r)
  \/ \E u \in Callers, w \in WsIds, t \in Users : DeleteMember(u, w, t)

SpecTx == Init /\ [][NextTx]_vars

\* ------------------------------------------------ deleting a trend

\* TrendsPage.handleDelete statement by statement, with other sessions
\* linking signals to trends meanwhile.  A signal and a trend, each absent or
\* in either workspace.
InitTrendDelete ==
  /\ workspaces = {[id |-> w, name |-> <<"a">>] : w \in WsIds}
  /\ members \in Memberships(MaxInitMembers)
  /\ rows \in {rs \in ContentStates : \A r \in rs : r.tbl # "megatrends"}
  /\ signal_trend = {}
  /\ trend_megatrend = {}
  /\ tx = NoTx
  /\ last = NoReq
  /\ del = NoDel
  /\ ui = NoUi
  /\ fn = NoFn
  /\ PagesAtRest

NextTrendDelete ==
  \/ \E u \in Callers, t \in TrendIds : HandleDeleteLinks(u, t)
  \/ HandleDeleteTrend
  \/ \E u \in Callers : \E l \in LinkRows("signal_trend") :
       InsertLink(u, "signal_trend", l)

SpecTrendDelete == InitTrendDelete /\ [][NextTrendDelete]_vars

\* ------------------------------------------------ the handlers, called directly

SummarizeContents ==
  {Undefined, Num(5), Str(<<>>), Str(<<" ">>),
   Str(Text(MinContentLength - 1)), Str(Text(MinContentLength))}

SummarizeRequests ==
  {[json |-> FALSE, content |-> Undefined]}
    \cup {[json |-> TRUE, content |-> c] : c \in SummarizeContents}

\* the provider's answers that carry no analysis
LlmReplies ==
  {FetchThrows,
   Reply("http", 429, TRUE, Undefined, ParseError, ""),
   Reply("http", 402, TRUE, Undefined, ParseError, ""),
   Reply("http", 500, TRUE, Undefined, ParseError, ""),
   Reply("http", 200, FALSE, Undefined, ParseError, ""),
   Reply("http", 200, TRUE, Undefined, ParseError, ""),
   Reply("http", 200, TRUE, Str(<<>>), ParseError, ""),
   Reply("http", 200, TRUE, Str(<<" ", "d", " ">>), ParseError, ""),
   Reply("http", 200, TRUE, Str(<<"5">>), Num(5), ""),
   Reply("http", 200, TRUE, Str(<<"n", "u", "l", "l">>), JsNull, "")}

PayloadSummaries ==
  {Undefined, Num(5), Str(Text(3)), Str(Text(SummaryMax + 1))}

PayloadTakeaways ==
  {Undefined, Str(<<"k">>), Arr(<<>>), Arr(<<Str(<<"k">>), Num(2)>>),
   Arr(<<Str(<<"k">>), Str(<<"l">>), Str(<<"m">>)>>),
   Arr(<<Str(<<"k">>), Str(<<"l">>), Str(<<"m">>), Str(<<"n">>)>>)}

PayloadTags ==
  {Undefined, Str(<<"a">>), Arr(<<>>), Arr(<<Str(<<"a", "-", "i">>)>>),
   Arr(<<Str(<<"A", " ", " ", "i">>), Str(<<"b", "\t", "c">>), Num(5)>>),
   Arr([i \in 1..(TagsMax + 1) |-> Str(<<"t", Digits[i]>>)])}

PayloadRelevances ==
  {Undefined, JsNull, Bool(TRUE), Num(0 - 5), Num(0), Num(75), Num(150),
   Str(<<"7", "5">>), Str(<<"a", "b", "c">>)}

PayloadHorizons == {Undefined, Str(<<"0", "_", "5">>), Str(<<"s", "o", "o", "n">>)}

PayloadCertainties ==
  {Undefined, Str(<<"w", "i", "l", "d", "c", "a", "r", "d">>), Num(1)}

\* the objects the provider's JSON text can parse to
Payloads ==
  {Obj(o) : o \in [summary : PayloadSummaries, takeaways : PayloadTakeaways,
                   tags : PayloadTags, relevance : PayloadRelevances,
                   horizon : PayloadHorizons, certainty : PayloadCertainties]}

\* the provider's answers that carry an analysis
PayloadReplies == {Reply("http", 200, TRUE, Str(<<"{", "}">>), p, "") : p \in Payloads}

\* requests with content to analyse
AnalysisRequests ==
  {[json |-> TRUE, content |-> Str(Text(n))] :
     n \in {MinContentLength - 1, MinContentLength}}

DescriptionRequests ==
  {[json |-> FALSE, title |-> Undefined, signals |-> Undefined]}
    \cup [json : {TRUE}, title : {Undefined, Str(<<>>), Str(<<"T">>)},
          signals : {Undefined, Arr(<<>>)}]

ScrapeUrls ==
  {Undefined, Num(5), Str(<<>>), Str(<<" ", " ">>), Str(<<"x">>),
   Str(<<" ", "x", " ">>), Str(HttpPrefix \o <<"x">>),
   Str(HttpsPrefix \o <<"x">>), Str(HttpsPrefix \o <<"x", " ">>),
   Str(<<" ">> \o HttpPrefix \o <<"x">>)}

ScrapeRequests ==
  {[json |-> FALSE, url |-> Undefined]}
    \cup {[json |-> TRUE, url |-> u] : u \in ScrapeUrls}

ScrapeReplies ==
  {FetchThrows,
   Reply("http", 200, FALSE, Undefined, ParseError, ""),
   Reply("http", 402, TRUE, Undefined, ParseError, "Payment required"),
   Reply("http", 500, TRUE, Undefined, ParseError, ""),
   Reply("http", 200, TRUE, Undefined, ParseError, ""),
   Reply("http", 200, TRUE, Str(<<" ", "m", "d">>), ParseError, "")}

\* a request of any client to one of the handlers, with the environment and
\* the provider's answer it meets
PendingCalls ==
  {Call("summarize-signal", req, key, reply, Pending) :
     req \in SummarizeRequests, key \in BOOLEAN, reply \in LlmReplies}
    \cup {Call("summarize-signal", req, TRUE, reply, Pending) :
            req \in AnalysisRequests, reply \in PayloadReplies}
    \cup {Call("generate-trend-description", req, key, reply, Pending) :
            req \in DescriptionRequests, key \in BOOLEAN, reply \in LlmReplies}
    \cup {Call("firecrawl-scrape", req, key, reply, Pending) :
            req \in ScrapeRequests, key \in BOOLEAN, reply \in ScrapeReplies}

InitFunctions ==
  /\ workspaces = {}
  /\ members = {}
  /\ rows = {}
  /\ signal_trend = {}
  /\ trend_megatrend = {}
  /\ tx = NoTx
  /\ last = NoReq
  /\ del = NoDel
  /\ ui = NoUi
  /\ fn \in PendingCalls
  /\ PagesAtRest

NextFunctions ==
  \/ Invoke("summarize-signal")
  \/ Invoke("generate-trend-description")
  \/ Invoke("firecrawl-scrape")

SpecFunctions == InitFunctions /\ [][NextFunctions]_vars

\* ------------------------------------------------ timestamps of signals

NextStamps ==
  \/ Tick
  \/ \E u \in Callers, w \in WsIds, id \in RowIds, c \in Supplied, x \in Supplied :
       InsertRowAt(u, w, id, c, x)
  \/ \E u \in Callers, r \in rows, c \in Supplied, x \in Supplied :
       UpdateRowAt(u, r, c, x)

SpecStamps == InitContent /\ [][NextStamps]_vars

\* the first run of a user: a workspace through the wizard, a signal, a
\* trend, a link between them, and the trend list
NextScenario ==
  \/ \E u \in Callers, n \in TypedNames : HandleCreateWorkspace(u, n)
  \/ \E u \in Callers, w \in WsIds : InsertRow(u, "signals", w, "s1")
  \/ \E u \in Callers, w \in WsIds : InsertRow(u, "trends", w, "t1")
  \/ \E u \in Callers : \E l \in LinkRows("signal_trend") :
       InsertLink(u, "signal_trend", l)
  \/ \E u \in Callers, w \in WsIds : FetchTrends(u, w)

SpecScenario == Init /\ [][NextScenario]_vars

\* ------------------------------------------------ saving links

\* two sessions of writers of w1 save links of trend t1 while signals are
\* deleted; the trend starts with any of the links
InitSaveLinks ==
  /\ workspaces = {[id |-> w, name |-> <<"a">>] : w \in WsIds}
  /\ members = {[workspace_id |-> "w1", user_id |-> "A", role |-> "owner"],
                [workspace_id |-> "w1", user_id |-> "B", role |-> "member"]}
  /\ rows = {[tbl |-> "signals", id |-> x, workspace_id |-> "w1"] : x \in SaveSignalIds}
              \cup {[tbl |-> "trends", id |-> "t1", workspace_id |-> "w1"]}
  /\ signal_trend \in SUBSET SelectedLinks(SaveSignalIds, "t1")
  /\ trend_megatrend = {}
  /\ tx = NoTx
  /\ last = NoReq
  /\ del = NoDel
  /\ ui = NoUi
  /\ fn = NoFn
  /\ clock = 0
  /\ saves = NoSaves
  /\ wp = NoWp
  /\ sp = NoSp

NextSaveLinks ==
  \/ \E s \in Sessions, u \in Users, sel \in SUBSET SaveSignalIds :
       SaveLinksDelete(s, u, "t1", sel)
  \/ \E s \in Sessions : SaveLinksInsert(s)
  \/ \E u \in Users, r \in {x \in rows : x.tbl = "signals"} : DeleteRow(u, r)

SpecSaveLinks == InitSaveLinks /\ [][NextSaveLinks]_vars

\* ------------------------------------------------ the workspace provider

\* the provider of one browser; w1 exists with owner A and admin B, either of
\* whom may remove the other or itself, and w2 is still to be created
InitProvider ==
  /\ workspaces = {[id |-> "w1", name |-> <<"a">>]}
  /\ members = {[workspace_id |-> "w1", user_id |-> "A", role |-> "owner"],
                [workspace_id |-> "w1", user_id |-> "B", role |-> "admin"]}
  /\ rows = {}
  /\ signal_trend = {}
  /\ trend_megatrend = {}
  /\ tx = NoTx
  /\ last = NoReq
  /\ del = NoDel
  /\ ui = NoUi
  /\ fn = NoFn
  /\ PagesAtRest

NextProvider ==
  \/ \E u \in Users : SignIn(u)
  \/ SignOut
  \/ FetchWorkspaces
  \/ \E w \in WsIds : SetCurrentWorkspace(w)
  \/ \E n \in Names : CreateWorkspace(n)
  \/ \E u \in Callers, w \in WsIds, t \in Users : DeleteMember(u, w, t)

SpecProvider == InitProvider /\ [][NextProvider]_vars

\* ------------------------------------------------ the signals page

\* SignalsPage of a writer of the current workspace, from an empty workspace
NextSignalsPage ==
  \/ PreviousPage
  \/ NextPage
  \/ \E h \in Horizons \cup {NoFilter} : SetFilterHorizon(h)
  \/ \E c \in Certainties \cup {NoFilter} : SetFilterCertainty(c)
  \/ \E k \in Kinds : HandleDeleteSignal(k)
  \/ \E k \in Kinds : CollectSignal(k)

SpecSignalsPage == InitContent /\ [][NextSignalsPage]_vars

\* ------------------------------------------------ graph and export

\* signals, trends and links the members insert, and the graph and the
\* export of a member for a workspace it belongs to
NextGraph ==
  \/ \E u \in Callers, w \in WsIds : InsertRow(u, "signals", w, "s1")
  \/ \E u \in Callers, w \in WsIds : InsertRow(u, "trends", w, "t1")
  \/ \E u \in Callers : \E l \in LinkRows("signal_trend") :
       InsertLink(u, "signal_trend", l)
  \/ \E u \in Users, w \in WsIds :
       is_workspace_member(members, u, w) /\ FetchData(u, w)
  \/ \E u \in Users, w \in WsIds :
       is_workspace_member(members, u, w) /\ ExportToCSV(u, w)

SpecGraph == InitLinksWide /\ [][NextGraph]_vars

\* ------------------------------------------------ collecting a signal

\* SignalCollector in a workspace with an owner and a viewer
InitCollector ==
  /\ workspaces = {[id |-> w, name |-> <<"a">>] : w \in WsIds}
  /\ members = {[workspace_id |-> "w1", user_id |-> "A", role |-> "owner"],
                [workspace_id |-> "w1", user_id |-> "B", role |-> "viewer"]}
  /\ rows = {}
  /\ signal_trend = {}
  /\ trend_megatrend = {}
  /\ tx = NoTx
  /\ last = NoReq
  /\ del = NoDel
  /\ ui = NoUi
  /\ fn = NoFn
  /\ PagesAtRest

CollectorReplies ==
  {FetchThrows,
   Reply("http", 429, TRUE, Undefined, ParseError, ""),
   Reply("http", 200, TRUE, Undefined, ParseError, ""),
   Reply("http", 200, TRUE, Str(Text(MinContentLength)),
         Obj([summary |-> Str(Text(3)), takeaways |-> Undefined,
              tags |-> Undefined, relevance |-> Num(75),
              horizon |-> Undefined, certainty |-> Undefined]), "")}

NextCollector ==
  \/ \E typed \in {<<>>, <<"x">>} : SetUrl(typed)
  \/ \E typed \in {<<>>, <<"t">>} : SetTitle(typed)
  \/ \E typed \in {<<>>, Text(MinContentLength - 1)} : SetContent(typed)
  \/ \E key \in BOOLEAN, reply \in CollectorReplies : HandleFetchUrl(key, reply)
  \/ \E key \in BOOLEAN, reply \in CollectorReplies : HandleAnalyze(key, reply)
  \/ \E u \in Callers, w \in WsIds, id \in RowIds \cup SignalIds : HandleSave(u, w, id)

SpecCollector == InitCollector /\ [][NextCollector]_vars

\* ------------------------------------------------ properties

HasRole(mem, uid, w, roles) ==
  \E m \in mem : m.workspace_id = w /\ m.user_id = uid /\ m.role \in roles

IsMember(mem, uid, w) == HasRole(mem, uid, w, app_role)

OwnerRow(w, uid) == [workspace_id |-> w, user_id |-> uid, role |-> "owner"]

WsIdsOf(ws) == {w.id : w \in ws}

\* C1: a read by U returns a content row of workspace W iff a Member row
\* (W, U) exists at that moment; the read that follows the deletion of U's
\* Member row of W returns no row of W.
C1_ReadIffMember ==
  /\ [](last.op = "select" =>
          last.result = {r \in rows : /\ r.tbl = last.tbl
                                      /\ IsMember(members, last.uid, r.workspace_id)})
  /\ [][(/\ last.op = "delete_member" /\ last.ok
         /\ last'.op = "select"
         /\ \E m \in last.result : m.user_id = last'.uid)
        => \A r \in last'.result : r.workspace_id # last.ws]_vars

\* a non-member's read comes back empty although the table holds a row of a
\* workspace that has a member
C1_Witness ==
  /\ last.op = "select" /\ last.uid \in Users /\ last.result = {}
  /\ \E r \in rows : /\ r.tbl = last.tbl
                     /\ \E m \in members : m.workspace_id = r.workspace_id

ContentOps == {"insert", "update", "delete"}

C3_MemberWritesGated ==
  [][members' # members =>
       \/ /\ members \ members' = {}
          /\ \E w \in WsIds :
               /\ members' \ members = {OwnerRow(w, last'.uid)}
               /\ ~\E m \in members : m.workspace_id = w
       \/ \A m \in (members' \ members) \cup (members \ members') :
            HasRole(members, last'.uid, m.workspace_id, {"owner", "admin"})]_vars

\* C4: every existing Workspace has at least one Member row with role owner.
C4_EveryWorkspaceHasOwner ==
  \A w \in workspaces :
    \E m \in members : m.workspace_id = w.id /\ m.role = "owner"

\* C5: the step that brings a Workspace row into existence leaves exactly one
\* owner Member row for it, that of the creating identity.
C5_CreatedWithOwner ==
  [][\A w \in workspaces' \ workspaces :
       {m \in members' : m.workspace_id = w.id /\ m.role = "owner"}
         = {OwnerRow(w.id, last'.uid)}]_vars

\* C6: create_workspace_with_owner is all-or-nothing: while the call is open
\* no other session finds the new workspace, and when it ends either the
\* workspace and its owner row appear together or neither table has changed.
C6_AllOrNothing ==
  /\ [](tx # NoTx => tx.id \notin WsIdsOf(workspaces))
  /\ [][(tx # NoTx /\ tx' = NoTx) =>
          IF last'.ok
          THEN /\ workspaces' = workspaces \cup {[id |-> tx.id, name |-> tx.name]}
               /\ members' = members \cup {OwnerRow(tx.id, tx.uid)}
          ELSE workspaces' = workspaces /\ members' = members]_vars

\* the call of the anon role has failed at the owner insert and nothing of
\* it is left
C6_Witness ==
  /\ last.op = "rpc" /\ ~last.ok /\ last.uid = NULL /\ tx = NoTx
  /\ workspaces = {} /\ members = {}

\* C7: workspace creation without an authenticated identity, or with an empty
\* name, is rejected and leaves workspaces and members unchanged.
C7_CreationRejected ==
  [][(/\ last'.op \in {"rpc", "ui_create"}
      /\ (last'.uid = NULL \/ last'.name = <<>>))
     => (~last'.ok /\ workspaces' = workspaces /\ members' = members)]_vars

\* C8: no update changes the workspace_id of a content row.
C8_WorkspaceIdImmutable ==
  [][\A r \in rows, n \in rows' :
       (r.tbl = n.tbl /\ r.id = n.id) => n.workspace_id = r.workspace_id]_vars

\* the signal of a signal_trend row, the trend of a trend_megatrend row
ParentOf(lt, l) ==
  IF lt = "signal_trend"
  THEN {r \in rows : r.tbl = "signals" /\ r.id = l.signal_id}
  ELSE {r \in rows : r.tbl = "trends" /\ r.id = l.trend_id}

RequestOutcomes(mem, rws, st, tm, uid) ==
  [sel |-> [t \in ContentTables |->
              {r \in rws : r.tbl = t /\ RowSelectAllowed(mem, uid, r)}],
   ins |-> [t \in ContentTables |->
              [w \in WsIds |-> RowInsertAllowed(mem, uid,
                                 [tbl |-> t, id |-> "r1", workspace_id |-> w])]],
   del |-> [t \in ContentTables |->
              {r \in rws : r.tbl = t /\ RowDeleteAllowed(mem, uid, r)}],
   sel_st |-> {l \in st : LinkSelectAllowed("signal_trend", mem, rws, uid, l)},
   sel_tm |-> {l \in tm : LinkSelectAllowed("trend_megatrend", mem, rws, uid, l)},
   ins_st |-> [l \in LinkRows("signal_trend") |->
                 LinkInsertOutcome("signal_trend", mem, rws, st, uid, l)],
   ins_tm |-> [l \in LinkRows("trend_megatrend") |->
                 LinkInsertOutcome("trend_megatrend", mem, rws, tm, uid, l)]]

\* C10: for U not a member of W, every request of U answers the same whether
\* or not a given row of W exists; in particular U's reads return no row of W.
C10_NoExistenceLeak ==
  \A u \in Callers, w \in WsIds :
    ~IsMember(members, u, w) =>
      \A r \in rows :
        r.workspace_id = w =>
          /\ RequestOutcomes(members, rows, signal_trend, trend_megatrend, u)
               = RequestOutcomes(members, rows \ {r},
                                 SignalTrendAfterDelete(signal_trend, {r}),
                                 TrendMegatrendAfterDelete(trend_megatrend, {r}), u)
          /\ \A t \in ContentTables :
               r \notin {x \in rows : x.tbl = t /\ RowSelectAllowed(members, u, x)}

\* C11: no SignalTrend row references a trend that does not exist: once the
\* delete flow has removed a Trend row, no link to that trend is left, whatever
\* other sessions linked to it while the flow was between its two statements.
C11_NoOrphanedSignalTrend ==
  \A l \in signal_trend : \E r \in rows : r.tbl = "trends" /\ r.id = l.trend_id

\* the flow removed the trend's link, another session linked the signal to
\* the trend again, and the trend's delete took that link with it
C11_Witness ==
  /\ del.phase = "done"
  /\ del.removed # {}
  /\ del.cascaded # {}
  /\ last.op = "delete_trend" /\ last.result # {}
  /\ signal_trend = {}

\* an answered call of the summarize handler
Summarized == fn.handler = "summarize-signal" /\ fn.status # Pending.status

\* a successful summarize response
SummarizeSucceeded == Summarized /\ fn.status = 200

\* C12: a summarize request whose content has fewer than 100 characters (and
\* is not blank) is rejected as too short, and the provider is not called;
\* stated for the handler with its credential configured.
C12_ShortContentRejected ==
  (/\ Summarized
   /\ fn.req.json /\ fn.key
   /\ fn.req.content.t = "str"
   /\ Trim(fn.req.content.v) # <<>>
   /\ Len(fn.req.content.v) < MinContentLength)
    => /\ fn.sent = <<>>
       /\ fn.status \in 400..499
       /\ fn.error = "Content too short"

\* C13: a successful summarize response has relevance in 0..100, a horizon and
\* a certainty of the enumerations and a summary of at most 1200 characters;
\* a relevance that is no number, a horizon and a certainty that are no value
\* of their enumeration are answered with the defaults 50, 5_10, uncertain.
C13_FieldsValidOrDefault ==
  SummarizeSucceeded =>
    LET given(name) == Field(fn.reply.parsed, name)
    IN /\ fn.body.relevance \in RelevanceMin..RelevanceMax
       /\ fn.body.horizon \in Horizons
       /\ fn.body.certainty \in Certainties
       /\ Len(fn.body.summary) <= SummaryMax
       /\ given("relevance").t # "num" => fn.body.relevance = RelevanceDefault
       /\ ~(given("horizon").t = "str" /\ given("horizon").v \in Horizons)
            => fn.body.horizon = HorizonDefault
       /\ ~(given("certainty").t = "str" /\ given("certainty").v \in Certainties)
            => fn.body.certainty = CertaintyDefault

\* C14: a successful summarize response has exactly 3 takeaways.
C14_ThreeTakeaways ==
  SummarizeSucceeded => Len(fn.body.takeaways) = 3

\* C15: a successful summarize response has 2 to 6 tags, none with a
\* whitespace or an uppercase character.
C15_TagsShape ==
  SummarizeSucceeded =>
    /\ Len(fn.body.tags) \in 2..6
    /\ \A i \in 1..Len(fn.body.tags) :
         \A k \in 1..Len(fn.body.tags[i]) :
           /\ fn.body.tags[i][k] \notin WhiteSpace
           /\ ~(\E c \in 1..Len(UpperCase) : UpperCase[c] = fn.body.tags[i][k])

\* an answered scrape call that got past the input checks with a text as url
ScrapedUrl ==
  /\ fn.handler = "firecrawl-scrape" /\ fn.status # Pending.status
  /\ fn.req.json /\ fn.key
  /\ fn.req.url.t = "str" /\ fn.req.url.v # <<>>

HasScheme(url) == StartsWith(url, HttpPrefix) \/ StartsWith(url, HttpsPrefix)

\* C16 as stated: a url without scheme is sent as "https://" and the trimmed
\* url; a url that starts with http:// or https:// is sent as it is.
C16_SchemeUnchanged ==
  ScrapedUrl =>
    /\ Len(fn.sent) = 1
    /\ ~HasScheme(Trim(fn.req.url.v))
         => fn.sent[1].url = HttpsPrefix \o Trim(fn.req.url.v)
    /\ HasScheme(fn.req.url.v) => fn.sent[1].url = fn.req.url.v

\* C16: the one request sent to the scrape provider carries the trimmed url,
\* with "https://" in front of it iff the trimmed url starts with neither
\* http:// nor https://.
C16_SchemeAfterTrim ==
  ScrapedUrl =>
    /\ Len(fn.sent) = 1
    /\ ~HasScheme(Trim(fn.req.url.v))
         => fn.sent[1].url = HttpsPrefix \o Trim(fn.req.url.v)
    /\ HasScheme(Trim(fn.req.url.v)) => fn.sent[1].url = Trim(fn.req.url.v)

\* a url without scheme and with blanks around it went out with the prefix
C16_Witness ==
  /\ ScrapedUrl
  /\ fn.req.url.v = <<" ", "x", " ">>
  /\ Len(fn.sent) = 1 /\ fn.sent[1].url = HttpsPrefix \o <<"x">>

C18_ProviderLimitsDistinct ==
  (/\ fn.handler \in {"summarize-signal", "generate-trend-description"}
   /\ fn.status # Pending.status
   /\ fn.reply.kind = "http" /\ fn.reply.status \in {429, 402}
   /\ fn.sent # <<>>) =>
    LET e(s) == Handle(fn.handler, fn.req, fn.key,
                       [fn.reply EXCEPT !.status = s]).error
    IN /\ Len(fn.sent) = 1
       /\ fn.error = e(fn.reply.status)
       /\ e(429) # e(402)
       /\ e(429) # e(500)
       /\ e(402) # e(500)

Tables == <<workspaces, members, rows, signal_trend, trend_megatrend>>

\* C19: a step of the fetch or the analysis changes no table; the rows table
\* changes only by a Save, which inserts one signal row.
C19_OnlySaveInserts ==
  [][/\ (fn' # fn \/ ui' # ui) => Tables' = Tables
     /\ Tables' # Tables =>
          /\ last'.op = "insert" /\ last'.tbl = "signals" /\ last'.ok
          /\ rows \subseteq rows'
          /\ Cardinality(rows' \ rows) = 1
          /\ \A r \in rows' \ rows : r.tbl = "signals"
          /\ <<workspaces, members, signal_trend, trend_megatrend>>'
               = <<workspaces, members, signal_trend, trend_megatrend>>
          /\ fn' = fn /\ ui' = ui]_vars

\* fetched, analysed and saved twice: two signal rows, the analysis at hand
C19_Witness ==
  /\ fn.handler = "summarize-signal" /\ fn.status = 200
  /\ ui.aiResult = fn.body
  /\ Cardinality(rows) = 2
  /\ last.op = "insert" /\ last.ok

\* C20: a handler whose catch block received an exception answers 500 with
\* its fixed failure text, not with the exception's message.
C20_InternalErrorGeneric ==
  (fn.status # Pending.status /\ fn.thrown # "none") =>
    /\ fn.status = 500
    /\ fn.error # fn.thrown
    /\ fn.error = IF fn.handler = "firecrawl-scrape" THEN "Failed to scrape"
                                                      ELSE "Unknown error"

\* C21: across every step, a row that stays keeps its created_at and its
\* updated_at does not decrease.
C21_CreatedAtImmutable ==
  [][\A r \in rows, n \in rows' :
       (r.tbl = n.tbl /\ r.id = n.id) =>
         /\ n.created_at = r.created_at
         /\ n.updated_at >= r.updated_at]_vars

\* C22: a user who creates a workspace through the wizard is its only member,
\* as owner; the owner's inserts of a signal, of a trend and of the link
\* between them are accepted; the owner's fetch of the trends of the
\* workspace returns each trend of the workspace, with the signals of the
\* workspace linked to it among its linked signals.
C22_FirstRun ==
  [][/\ (last'.op = "ui_create" /\ last'.uid # NULL /\ Trim(last'.name) # <<>>) =>
          /\ last'.ok
          /\ \E w \in workspaces' \ workspaces : w.id = last'.ws
          /\ {m \in members' : m.workspace_id = last'.ws}
               = {OwnerRow(last'.ws, last'.uid)}
     /\ (last'.op = "insert" /\ HasRole(members, last'.uid, last'.ws, {"owner"})) =>
          /\ last'.ok
          /\ last'.result \subseteq rows'
     /\ (/\ last'.op = "insert_link"
         /\ last'.result \cap signal_trend = {}
         /\ \A l \in last'.result :
              \E s, t \in rows :
                /\ s.tbl = "signals" /\ s.id = l.signal_id
                /\ t.tbl = "trends" /\ t.id = l.trend_id
                /\ s.workspace_id = t.workspace_id
                /\ HasRole(members, last'.uid, s.workspace_id, {"owner"})) =>
          /\ last'.ok
          /\ last'.result \subseteq signal_trend'
     /\ (last'.op = "fetch_trends" /\ HasRole(members, last'.uid, last'.ws, {"owner"})) =>
          \A t \in {r \in rows : r.tbl = "trends" /\ r.workspace_id = last'.ws} :
            \E e \in last'.result :
              /\ e.id = t.id
              /\ \A l \in LinksOfTrend(signal_trend, t.id) :
                   (\E x \in rows : /\ x.tbl = "signals" /\ x.id = l.signal_id
                                    /\ x.workspace_id = last'.ws)
                     => l.signal_id \in e.linkedSignals]_vars

\* A has created a workspace, a signal and a trend in it and the link, and
\* the trend list of the workspace shows the trend with the signal
C22_Witness ==
  /\ last.op = "fetch_trends" /\ last.uid = "A"
  /\ {m \in members : m.workspace_id = last.ws} = {OwnerRow(last.ws, "A")}
  /\ \E s, t \in rows :
       /\ s.tbl = "signals" /\ t.tbl = "trends"
       /\ s.workspace_id = last.ws /\ t.workspace_id = last.ws
       /\ [signal_id |-> s.id, trend_id |-> t.id] \in signal_trend
       /\ [id |-> t.id, linkedSignals |-> {s.id}] \in last.result

\* the signals the sessions choose from are all stored
SignalsStored == \A x \in SaveSignalIds : \E r \in rows : r.tbl = "signals" /\ r.id = x

\* C23: once both sessions have completed their save of the trend's links
\* (no signal deleted meanwhile), neither save has failed and the links
\* stored for the trend are the selection of the save that finished last.
C23_LastSaveWins ==
  (Len(saves.finished) = 2 /\ SignalsStored) =>
    /\ \A s \in Sessions : saves.of[s].phase = "done"
    /\ LinksOfTrend(signal_trend, "t1")
         = SelectedLinks(saves.of[saves.finished[2]].sel, "t1")

\* C25: a save whose insert fails, with no other save under way, leaves
\* stored the links the trend had before the save (those whose signal is
\* still stored).
C25_SaveAllOrNothing ==
  [][\A s \in Sessions :
       (/\ saves.of[s].phase = "deleted"
        /\ saves'.of[s].phase = "failed"
        /\ \A o \in Sessions \ {s} : saves.of[o].phase = "idle"
        /\ \A l \in saves.of[s].before :
             \E r \in rows : r.tbl = "signals" /\ r.id = l.signal_id)
         => saves.of[s].before \subseteq signal_trend']_vars

\* C24: every signal_trend row links a signal and a trend of one workspace,
\* and every trend_megatrend row a trend and a megatrend of one workspace.
C24_LinksWithinWorkspace ==
  /\ \A l \in signal_trend : \A s, t \in rows :
       (/\ s.tbl = "signals" /\ s.id = l.signal_id
        /\ t.tbl = "trends" /\ t.id = l.trend_id)
         => s.workspace_id = t.workspace_id
  /\ \A l \in trend_megatrend : \A t, m \in rows :
       (/\ t.tbl = "trends" /\ t.id = l.trend_id
        /\ m.tbl = "megatrends" /\ m.id = l.megatrend_id)
         => t.workspace_id = m.workspace_id

\* C26: when the provider's relevance is a number r with 0 <= r <= 100, the
\* summarize response has relevance r and so has the signal saved from it.
C26_RelevancePreserved ==
  LET r == Field(fn.reply.parsed, "relevance")
  IN (SummarizeSucceeded /\ r.t = "num" /\ r.v \in RelevanceMin..RelevanceMax) =>
       /\ fn.body.relevance = r.v
       /\ SavedRelevance(fn.body) = r.v

\* C27: with no fetch pending, currentWorkspace is null or a workspace of the
\* list fetched last.
C27_CurrentWorkspaceListed ==
  ~wp.pending => (wp.currentWorkspace = NULL \/ wp.currentWorkspace \in wp.workspaces)

\* C28: currentPage lies between 1 and max(1, totalPages).
C28_PageInRange ==
  /\ sp.currentPage >= 1
  /\ sp.currentPage <= (IF TotalPages(sp.totalCount) > 1
                         THEN TotalPages(sp.totalCount) ELSE 1)

\* a link whose signal and trend are rows of workspace w
LinkOfWorkspace(l, w) ==
  /\ \E r \in rows : r.tbl = "signals" /\ r.id = l.signal_id /\ r.workspace_id = w
  /\ \E r \in rows : r.tbl = "trends" /\ r.id = l.trend_id /\ r.workspace_id = w

\* C29: every link the graph shows and every link the export writes for the
\* current workspace has its signal and its trend in that workspace.
C29_ShownLinksOfWorkspace ==
  last.op \in {"graph", "export"} =>
    \A l \in last.result : LinkOfWorkspace(l, last.ws)

\* C30: a step that changes the content field while an AI result is held
\* (an edit, or a fetch that replaces the content) clears the AI result.
C30_EditClearsAiResult ==
  [][(ui'.content # ui.content /\ ui.aiResult # NoBody) => ui'.aiResult = NoBody]_vars

====
